---- MODULE Spec2Model ----
(***************************************************************************)
(* Model of gitbutler-app/src/virtual_branches/context.rs:                 *)
(* hunk_with_context, which widens a zero-context unified-diff hunk with   *)
(* up to context_lines lines of the old file before and after the change   *)
(* and rewrites the "@@ -a,b +c,d @@" header.                              *)
(*                                                                         *)
(* Text is a sequence of one-character strings; a list of lines is a       *)
(* sequence of such sequences.  usize/isize arithmetic is modelled with    *)
(* UsizeBits bits (the program has 64): a debug build panics on overflow,  *)
(* a release build wraps.  The final "as u32" casts are not modelled, no   *)
(* value of the model reaches 2^32.                                        *)
(***************************************************************************)
EXTENDS Integers, Sequences, FiniteSets

\* ------------------------------------------------------------------ bounds
UsizeBits == 5
MaxStart == 4
MaxContext == 3
MaxFileLen == 3

UsizeModulus == 2 ^ UsizeBits
UsizeMax == UsizeModulus - 1
IsizeMax == (2 ^ (UsizeBits - 1)) - 1
IsizeMin == 0 - (2 ^ (UsizeBits - 1))

\* ------------------------------------------------------- text primitives
NL == "\n"
CR == "\r"
DigitChars == <<"0", "1", "2", "3", "4", "5", "6", "7", "8", "9">>

IsDigit(ch) == \E d \in 1..10 : DigitChars[d] = ch

DigitVal(ch) == (CHOOSE d \in 1..10 : DigitChars[d] = ch) - 1

\* usize Display as used by format!("{}")
RECURSIVE ToString(_)
ToString(n) ==
    IF n < 10 THEN <<DigitChars[n + 1]>>
    ELSE ToString(n \div 10) \o <<DigitChars[(n % 10) + 1]>>

RECURSIVE DigitsValue(_)
DigitsValue(ds) ==
    IF ds = <<>> THEN 0
    ELSE 10 * DigitsValue(SubSeq(ds, 1, Len(ds) - 1)) + DigitVal(ds[Len(ds)])

\* str::starts_with(char)
StartsWith(line, ch) == line # <<>> /\ line[1] = ch

\* str::lines(): split at "\n", a "\r" directly before the "\n" is dropped,
\* a text that ends with "\n" has no empty last line.
RECURSIVE Lines(_)
Lines(str) ==
    IF str = <<>> THEN <<>>
    ELSE IF \E k \in 1..Len(str) : str[k] = NL
         THEN LET k == CHOOSE j \in 1..Len(str) :
                           str[j] = NL /\ \A m \in 1..(j - 1) : str[m] # NL
                  raw == SubSeq(str, 1, k - 1)
                  line == IF raw # <<>> /\ raw[Len(raw)] = CR
                          THEN SubSeq(raw, 1, Len(raw) - 1) ELSE raw
              IN  <<line>> \o Lines(SubSeq(str, k + 1, Len(str)))
         ELSE <<str>>

\* [String]::join("\n")
RECURSIVE Join(_)
Join(ls) ==
    IF ls = <<>> THEN <<>>
    ELSE IF Len(ls) = 1 THEN ls[1]
    ELSE ls[1] \o <<NL>> \o Join(Tail(ls))

\* iter().filter(|line| line.starts_with(ch)).count()
RECURSIVE CountStartingWith(_, _)
CountStartingWith(ls, ch) ==
    IF ls = <<>> THEN 0
    ELSE (IF StartsWith(ls[1], ch) THEN 1 ELSE 0) + CountStartingWith(Tail(ls), ch)

\* s.insert(0, ' ')
Prefixed(l) == <<" ">> \o l

\* Vec::reverse
Reverse(ls) == [k \in 1..Len(ls) |-> ls[Len(ls) + 1 - k]]

\* ------------------------------------------------------ context-before
BeforeStepSaturating(start, i, file) ==
    LET idx == IF start > i + 1 THEN start - i - 1 ELSE 0
    IN  IF idx < Len(file) THEN <<Prefixed(file[idx + 1])>> ELSE <<>>

\* one iteration of the loop at lines 27-38: the lines it pushes
BeforeStep(start, i, file) ==
    IF start > i
    THEN LET idx == start - i - 1
         IN  IF idx < Len(file) THEN <<Prefixed(file[idx + 1])>> ELSE <<>>
    ELSE <<>>

RECURSIVE BeforeLoop(_, _, _, _, _)
BeforeLoop(i, width, start, file, acc) ==
    IF i > width THEN acc
    ELSE BeforeLoop(i + 1, width, start, file, acc \o BeforeStep(start, i, file))

ContextBeforeUnreversed(start, width, file) == BeforeLoop(1, width, start, file, <<>>)

ContextBefore(start, width, file) == Reverse(BeforeLoop(1, width, start, file, <<>>))

\* ------------------------------------------------------- context-after
\* let end = context_lines - 1: overflows for context_lines = 0
EndOverflows(width) == width = 0

AfterEnd(width) == (width - 1) % UsizeModulus

\* hunk_start_line + removed_count + i - 1 leaves usize
IdxOverflows(start, removed, i) ==
    \/ start + removed > UsizeMax
    \/ start + removed + i > UsizeMax
    \/ start + removed + i = 0

AfterIdxOffByOne(start, removed, i) == (start + removed + i) % UsizeModulus

AfterIdx(start, removed, i) == (start + removed + i - 1) % UsizeModulus

AfterStep(idx, file) ==
    IF idx < Len(file) THEN <<Prefixed(file[idx + 1])>> ELSE <<>>

RECURSIVE AfterLoop(_, _, _, _, _, _, _)
AfterLoop(i, end, start, removed, file, bld, acc) ==
    IF i > end THEN [panic |-> FALSE, lines |-> acc]
    ELSE IF bld = "debug" /\ IdxOverflows(start, removed, i)
         THEN [panic |-> TRUE, lines |-> acc]
         ELSE AfterLoop(i + 1, end, start, removed, file, bld,
                        acc \o AfterStep(AfterIdx(start, removed, i), file))

ContextAfter(start, removed, width, file, bld) ==
    IF bld = "debug" /\ EndOverflows(width)
    THEN [panic |-> TRUE, lines |-> <<>>]
    ELSE AfterLoop(0, AfterEnd(width), start, removed, file, bld, <<>>)

\* --------------------------------------------------------- header parse
IsSeparator(ch) == ch = " " \/ ch = "@"

\* header.split(|c| c == ' ' || c == '@').filter(|s| !s.is_empty())
RECURSIVE HeaderFields(_)
HeaderFields(str) ==
    IF str = <<>> THEN <<>>
    ELSE IF IsSeparator(str[1]) THEN HeaderFields(Tail(str))
    ELSE LET stops == {k \in 1..Len(str) : IsSeparator(str[k])}
             k == IF stops = {} THEN Len(str) + 1
                  ELSE CHOOSE j \in stops : \A m \in stops : j <= m
         IN  <<SubSeq(str, 1, k - 1)>> \o HeaderFields(SubSeq(str, k, Len(str)))

\* field.split(',').collect::<Vec<_>>()[0]
FirstCommaField(field) ==
    LET commas == {k \in 1..Len(field) : field[k] = ","}
    IN  IF commas = {} THEN field
        ELSE SubSeq(field, 1, (CHOOSE j \in commas : \A m \in commas : j <= m) - 1)

\* str::parse::<isize>()
ParseIsize(str) ==
    LET signed == str # <<>> /\ str[1] \in {"+", "-"}
        negative == str # <<>> /\ str[1] = "-"
        digits == IF signed THEN Tail(str) ELSE str
    IN  IF digits = <<>> \/ \E k \in 1..Len(digits) : ~IsDigit(digits[k])
        THEN [ok |-> FALSE, val |-> 0]
        ELSE LET mag == DigitsValue(digits)
                 v == IF negative THEN 0 - mag ELSE mag
             IN  IF v < IsizeMin \/ v > IsizeMax
                 THEN [ok |-> FALSE, val |-> 0]
                 ELSE [ok |-> TRUE, val |-> v]

UnsignedAbs(v) == IF v < 0 THEN 0 - v ELSE v

WrappingSub(a, b) == (a - b) % UsizeModulus

SaturatingSub(a, b) == IF a > b THEN a - b ELSE 0

\* lines 63-67 and 69-73 after the field was indexed
StartLine(field, before_len) ==
    LET p == ParseIsize(FirstCommaField(field))
    IN  IF p.ok THEN [ok |-> TRUE, val |-> SaturatingSub(UnsignedAbs(p.val), before_len)]
        ELSE [ok |-> FALSE, val |-> 0]

LineCountNoAfter(changed, before_len, after_len) == changed + before_len

\* lines 68 and 74
LineCount(changed, before_len, after_len) == changed + before_len + after_len

\* format!("@@ -{},{} +{},{} @@", ..)
FormatHeader(a, b, c, d) ==
    <<"@", "@", " ", "-">> \o ToString(a) \o <<",">> \o ToString(b)
        \o <<" ", "+">> \o ToString(c) \o <<",">> \o ToString(d) \o <<" ", "@", "@">>

\* lines 55-78: "panic" for an index out of bounds, "err" for a failed parse
RewriteHeader(dlines, removed, added, before_len, after_len) ==
    IF dlines = <<>> THEN [kind |-> "panic"]
    ELSE LET fields == HeaderFields(dlines[1])
         IN  IF Len(fields) < 1 THEN [kind |-> "panic"]
             ELSE LET sb == StartLine(fields[1], before_len)
                  IN  IF ~sb.ok THEN [kind |-> "err_before"]
                      ELSE IF Len(fields) < 2 THEN [kind |-> "panic"]
                      ELSE LET sa == StartLine(fields[2], before_len)
                           IN  IF ~sa.ok THEN [kind |-> "err_after"]
                               ELSE [kind |-> "ok",
                                     old_start |-> sb.val,
                                     old_lines |-> LineCount(removed, before_len, after_len),
                                     new_start |-> sa.val,
                                     new_lines |-> LineCount(added, before_len, after_len)]

\* ------------------------------------------------------------- assembly
AssembleBodyFirst(before, body, after) == body \o before \o after

\* lines 81-85
AssembleBody(before, body, after) == before \o body \o after

\* lines 88-93
Serialize(header_line, body) == Join(<<header_line>> \o body) \o <<NL>>

NoHunk == [diff |-> <<>>, old_start |-> 0, old_lines |-> 0,
           new_start |-> 0, new_lines |-> 0, binary |-> FALSE]

MakeHunk(h, dlines, before, after, bin) ==
    [diff |-> Serialize(FormatHeader(h.old_start, h.old_lines, h.new_start, h.new_lines),
                        AssembleBody(before, Tail(dlines), after)),
     old_start |-> h.old_start, old_lines |-> h.old_lines,
     new_start |-> h.new_start, new_lines |-> h.new_lines,
     binary |-> bin]

\* the whole call, lines 4-105
HunkWithContext(hd, start, bin, width, file, bld) ==
    LET dlines == Lines(hd)
        removed == CountStartingWith(dlines, "-")
        added == CountStartingWith(dlines, "+")
        before == ContextBefore(start, width, file)
        after == ContextAfter(start, removed, width, file, bld)
    IN  IF after.panic THEN [outcome |-> "panic_overflow", hunk |-> NoHunk]
        ELSE LET h == RewriteHeader(dlines, removed, added, Len(before), Len(after.lines))
             IN  IF h.kind = "ok"
                 THEN [outcome |-> "ok",
                       hunk |-> MakeHunk(h, dlines, before, after.lines, bin)]
                 ELSE [outcome |-> h.kind, hunk |-> NoHunk]

\* ---------------------------------------------------------------- inputs
\* the old file: line k of FileText, for files of 0..MaxFileLen lines
FileLine(k) ==
    IF k = 2 THEN <<"+", "y">>
    ELSE IF k = 3 THEN <<>>
    ELSE <<"l">> \o ToString(k)

Files == {[k \in 1..n |-> FileLine(k)] : n \in 0..MaxFileLen}

NoCount == 0 - 1

CountText(cnt) == IF cnt = NoCount THEN <<>> ELSE <<",">> \o ToString(cnt)

\* "@@ -a[,b] +c[,d] @@" followed by an annotation
MkHeader(a, b, c, d, ann) ==
    <<"@", "@", " ", "-">> \o ToString(a) \o CountText(b)
        \o <<" ", "+">> \o ToString(c) \o CountText(d) \o <<" ", "@", "@">> \o ann

Annotation == <<" ", "f", "n", " ", "-", "x">>

HeaderShapes == {<<NoCount, NoCount, <<>>>>, <<2, 3, <<>>>>, <<NoCount, NoCount, Annotation>>}

HeaderStarts == 0..MaxStart

WellFormedHeaders ==
    {MkHeader(a, NoCount, a, NoCount, <<>>) : a \in HeaderStarts}
        \cup {MkHeader(2, sh[1], 2, sh[2], sh[3]) : sh \in HeaderShapes}
        \cup {MkHeader(1, NoCount, 2, NoCount, <<>>), MkHeader(2, 2, 1, 3, Annotation)}

OddHeaders ==
    { <<>>,
      <<"@", "@">>,
      <<"@", "@", " ", "-", "1", " ", "@", "@">>,
      <<"@", "@", " ", "x", " ", "@", "@">>,
      <<"@", "@", " ", "-", "x", " ", "+", "1", " ", "@", "@">>,
      <<"@", "@", " ", "-", "1", " ", "+", "x", " ", "@", "@">>,
      <<"@", "@", " ", "-", ",", "1", " ", "+", "1", " ", "@", "@">>,
      <<"-", "1", " ", "+", "1">>,
      <<"+", "1", " ", "+", "1">> }

Headers == WellFormedHeaders \cup OddHeaders

Bodies ==
    { <<>>,
      << <<"-", "a">> >>,
      << <<"+", "b">> >>,
      << <<"-", "a">>, <<"+", "b">> >>,
      << <<"-", "a">>, <<"-", "b">>, <<"+", "x">> >>,
      << <<" ", "c">>, <<"-", "a">>, <<"+", "b">> >>,
      << <<"-", "a">>, <<>> >> }

Terminators == {<<>>, <<NL>>}

\* hunk texts as a diff producer writes them
UsualDiffs ==
    {Join(<<h>> \o b) \o t : h \in WellFormedHeaders, b \in Bodies, t \in Terminators}

\* hunk texts with no header line, an odd one, or "\r\n" line ends
OddDiffs ==
    {Join(<<h>> \o b) \o t : h \in OddHeaders, b \in Bodies, t \in Terminators}
        \cup {<<"@", "@", " ", "-", "1", " ", "+", "1", " ", "@", "@", CR, NL,
               "-", "a", CR, NL>>}

HunkDiffs == UsualDiffs \cup OddDiffs

Builds == {"debug", "release"}

\* ----------------------------------------------------------------- state
VARIABLES hunk_diff, hunk_start_line, is_binary, context_lines, file_lines_before,
          build, diff_lines, removed_count, added_count, context_before,
          context_after, header, hunk, outcome, pc

inputs == <<hunk_diff, hunk_start_line, is_binary, context_lines, file_lines_before, build>>

locals == <<diff_lines, removed_count, added_count, context_before, context_after, header>>

vars == <<inputs, locals, hunk, outcome, pc>>

\* the inputs of a call; the usual ones (a well-formed header, a 1-based
\* start line, a positive width) are listed before the boundary ones
Init ==
    /\ \/ hunk_diff \in UsualDiffs
       \/ hunk_diff \in OddDiffs
    /\ \/ hunk_start_line \in 1..MaxStart
       \/ hunk_start_line = 0
    /\ is_binary \in BOOLEAN
    /\ \/ context_lines \in 1..MaxContext
       \/ context_lines = 0
    /\ file_lines_before \in Files
    /\ build \in Builds
    /\ diff_lines = <<>>
    /\ removed_count = 0
    /\ added_count = 0
    /\ context_before = <<>>
    /\ context_after = <<>>
    /\ header = [kind |-> "none"]
    /\ hunk = NoHunk
    /\ outcome = "running"
    /\ pc = "split"

\* lines 11-23
SplitAndCount ==
    /\ pc = "split"
    /\ diff_lines' = Lines(hunk_diff)
    /\ removed_count' = CountStartingWith(Lines(hunk_diff), "-")
    /\ added_count' = CountStartingWith(Lines(hunk_diff), "+")
    /\ pc' = "before"
    /\ UNCHANGED <<inputs, context_before, context_after, header, hunk, outcome>>

\* lines 25-39
CollectBefore ==
    /\ pc = "before"
    /\ context_before' = ContextBefore(hunk_start_line, context_lines, file_lines_before)
    /\ pc' = "after"
    /\ UNCHANGED <<inputs, diff_lines, removed_count, added_count, context_after,
                   header, hunk, outcome>>

\* lines 41-53, the arithmetic stays in usize
CollectAfter ==
    /\ pc = "after"
    /\ LET r == ContextAfter(hunk_start_line, removed_count, context_lines,
                             file_lines_before, build)
       IN  /\ ~r.panic
           /\ context_after' = r.lines
    /\ pc' = "header"
    /\ UNCHANGED <<inputs, diff_lines, removed_count, added_count, context_before,
                   header, hunk, outcome>>

\* lines 43 and 45 in a build with overflow checks: the thread panics
CollectAfterOverflow ==
    /\ pc = "after"
    /\ ContextAfter(hunk_start_line, removed_count, context_lines,
                    file_lines_before, build).panic
    /\ outcome' = "panic_overflow"
    /\ pc' = "done"
    /\ UNCHANGED <<inputs, locals, hunk>>

HeaderNow ==
    RewriteHeader(diff_lines, removed_count, added_count,
                  Len(context_before), Len(context_after))

\* lines 55-78
UpdateHeader ==
    /\ pc = "header"
    /\ HeaderNow.kind = "ok"
    /\ header' = HeaderNow
    /\ pc' = "assemble"
    /\ UNCHANGED <<inputs, diff_lines, removed_count, added_count, context_before,
                   context_after, hunk, outcome>>

\* lines 65 and 71: the ? operator returns the parse error
HeaderParseError ==
    /\ pc = "header"
    /\ HeaderNow.kind \in {"err_before", "err_after"}
    /\ header' = HeaderNow
    /\ outcome' = "err"
    /\ pc' = "done"
    /\ UNCHANGED <<inputs, diff_lines, removed_count, added_count, context_before,
                   context_after, hunk>>

\* lines 55, 63 and 69: index out of bounds
HeaderIndexPanic ==
    /\ pc = "header"
    /\ HeaderNow.kind = "panic"
    /\ outcome' = "panic_index"
    /\ pc' = "done"
    /\ UNCHANGED <<inputs, locals, hunk>>

\* lines 80-104
Assemble ==
    /\ pc = "assemble"
    /\ hunk' = MakeHunk(header, diff_lines, context_before, context_after, is_binary)
    /\ outcome' = "ok"
    /\ pc' = "done"
    /\ UNCHANGED <<inputs, locals>>

Next ==
    \/ SplitAndCount
    \/ CollectBefore
    \/ CollectAfter
    \/ CollectAfterOverflow
    \/ UpdateHeader
    \/ HeaderParseError
    \/ HeaderIndexPanic
    \/ Assemble

Spec == Init /\ [][Next]_vars

Returned == pc = "done" /\ outcome = "ok"

\* the stepwise execution and the function agree
StepsAgree ==
    pc = "done" =>
        LET r == HunkWithContext(hunk_diff, hunk_start_line, is_binary, context_lines,
                                 file_lines_before, build)
        IN  /\ (outcome = "err") = (r.outcome \in {"err_before", "err_after"})
            /\ (outcome = "panic_overflow") = (r.outcome = "panic_overflow")
            /\ (outcome = "panic_index") = (r.outcome = "panic")
            /\ (outcome = "ok") = (r.outcome = "ok")
            /\ hunk = r.hunk

\* ------------------------------------------------- vocabulary of the claims
Min(a, b) == IF a < b THEN a ELSE b

Max(a, b) == IF a > b THEN a ELSE b

InputLines == Lines(hunk_diff)

InputHeader == IF InputLines = <<>> THEN <<>> ELSE InputLines[1]

InputBody == IF InputLines = <<>> THEN <<>> ELSE Tail(InputLines)

HeaderStartsWithAtAt ==
    Len(InputHeader) >= 2 /\ InputHeader[1] = "@" /\ InputHeader[2] = "@"

BodyRemoved == CountStartingWith(InputBody, "-")

BodyAdded == CountStartingWith(InputBody, "+")

FileLen == Len(file_lines_before)

OutputLines == Lines(hunk.diff)

OutputBody == Tail(OutputLines)

\* C2: a Hunk returned for an input whose header starts with "@@" has
\* old_lines = removed body lines + context before + context after and
\* new_lines = added body lines + context before + context after.
C2_HeaderConsistency ==
    (Returned /\ HeaderStartsWithAtAt) =>
        /\ hunk.old_lines = BodyRemoved + Len(context_before) + Len(context_after)
        /\ hunk.new_lines = BodyAdded + Len(context_before) + Len(context_after)

C2_Witness ==
    /\ Returned /\ HeaderStartsWithAtAt
    /\ BodyRemoved = 1 /\ BodyAdded = 0
    /\ Len(context_before) = 1 /\ Len(context_after) = 1
    /\ hunk.old_lines = 3 /\ hunk.new_lines = 2

\* ---- C1
\* the leading number of the old-start or of the new-start field of the
\* input header is not a signed integer
StartFieldUnparsable ==
    LET fields == HeaderFields(InputHeader)
    IN  \E k \in 1..Min(2, Len(fields)) : ~ParseIsize(FirstCommaField(fields[k])).ok

\* C1: the call fails only with a header parse error, exactly when a start
\* field of the input header cannot be parsed; every other call returns a
\* Hunk and never aborts.
C1_FailsOnlyWithParseError ==
    /\ outcome \notin {"panic_overflow", "panic_index"}
    /\ pc = "done" => ((outcome = "err") <=> StartFieldUnparsable)
    /\ pc = "done" => ((outcome = "ok") <=> ~StartFieldUnparsable)

\* ---- C3
\* C3: with context width 0 the context-after loop runs zero times; the
\* returned Hunk has no context lines, the input body as its body and the
\* removed / added counts as old_lines / new_lines.
C3_ZeroWidthAddsNothing ==
    context_lines = 0 =>
        /\ outcome # "panic_overflow"
        /\ context_before = <<>> /\ context_after = <<>>
        /\ Returned =>
            /\ OutputBody = InputBody
            /\ hunk.old_lines = CountStartingWith(InputLines, "-")
            /\ hunk.new_lines = CountStartingWith(InputLines, "+")

\* ---- C4
\* the text after the first comma of a header field
AfterComma(field) ==
    LET commas == {k \in 1..Len(field) : field[k] = ","}
    IN  IF commas = {} THEN <<>>
        ELSE SubSeq(field, (CHOOSE j \in commas : \A m \in commas : j <= m) + 1, Len(field))

ProducedOldCount == DigitsValue(AfterComma(HeaderFields(OutputLines[1])[1]))

ProducedNewCount == DigitsValue(AfterComma(HeaderFields(OutputLines[1])[2]))

\* C4: in every returned Hunk the old count of the produced header is the
\* number of produced body lines that do not start with "+", and the new
\* count the number that do not start with "-".
C4_CountsMatchBody ==
    Returned =>
        /\ ProducedOldCount = Len(OutputBody) - CountStartingWith(OutputBody, "+")
        /\ ProducedNewCount = Len(OutputBody) - CountStartingWith(OutputBody, "-")

\* ---- C5
\* C5: the diff text of every returned Hunk ends with exactly one newline.
C5_OneTrailingNewline ==
    Returned =>
        /\ Len(hunk.diff) >= 2
        /\ hunk.diff[Len(hunk.diff)] = NL
        /\ hunk.diff[Len(hunk.diff) - 1] # NL

\* ---- C6
\* r: the lines of the hunk text that start with "-"
Removed == CountStartingWith(InputLines, "-")

\* file lines left after the change: n - (s + r - 1)
Remaining == FileLen - (hunk_start_line + Removed - 1)

\* context_after is the file lines s + r, s + r + 1, .. in ascending order
AfterIsFollowingLines ==
    \A k \in 1..Len(context_after) :
        /\ hunk_start_line + Removed + k - 1 \in 1..FileLen
        /\ context_after[k] = <<" ">> \o file_lines_before[hunk_start_line + Removed + k - 1]

\* C6 as stated: for s >= 1 and w >= 1, when 0 <= n - (s + r - 1) < w the
\* context after is exactly the remaining file lines; otherwise it has w lines.
C6_AfterClampedOrFull ==
    (Returned /\ hunk_start_line >= 1 /\ context_lines >= 1) =>
        IF 0 <= Remaining /\ Remaining < context_lines
        THEN Len(context_after) = Remaining /\ AfterIsFollowingLines
        ELSE Len(context_after) = context_lines

\* C6 amended: for s >= 1 and w >= 1, the context after is the remaining
\* file lines when 0 <= n - (s + r - 1) < w, is empty when the change ends
\* beyond the file (n - (s + r - 1) < 0), and has w lines otherwise; its
\* lines are file lines s + r, s + r + 1, .. in ascending order.
C6_AfterClampedFullOrEmpty ==
    (Returned /\ hunk_start_line >= 1 /\ context_lines >= 1) =>
        /\ AfterIsFollowingLines
        /\ Len(context_after) =
              (IF Remaining < 0 THEN 0
               ELSE IF Remaining < context_lines THEN Remaining
               ELSE context_lines)

C6_Witness ==
    /\ Returned /\ HeaderStartsWithAtAt
    /\ hunk_start_line = 2 /\ Removed = 1 /\ FileLen = 3 /\ context_lines = 3
    /\ Remaining = 1
    /\ context_after = << <<" ">> \o file_lines_before[3] >>

\* ---- C7
\* every context-before line is a file line at a 0-based index in 0 .. s - 2
BeforeFromInsideFile ==
    \A k \in 1..Len(context_before) :
        \E idx \in 0..(hunk_start_line - 2) :
            /\ idx < FileLen
            /\ context_before[k] = <<" ">> \o file_lines_before[idx + 1]

\* C7 as stated: whenever hunk_start_line <= context_width, fewer than
\* context_width context-before lines are included, at most
\* hunk_start_line - 1, none from before the first file line.
C7_BeforeClamped ==
    (Returned /\ hunk_start_line <= context_lines) =>
        /\ Len(context_before) < context_lines
        /\ Len(context_before) <= hunk_start_line - 1
        /\ BeforeFromInsideFile

\* C7 amended: the same for 1 <= hunk_start_line <= context_width.
C7_BeforeClampedFromLineOne ==
    (Returned /\ 1 <= hunk_start_line /\ hunk_start_line <= context_lines) =>
        /\ Len(context_before) < context_lines
        /\ Len(context_before) <= hunk_start_line - 1
        /\ BeforeFromInsideFile

C7_Witness ==
    /\ Returned
    /\ hunk_start_line = 3 /\ context_lines = 3 /\ FileLen = 3
    /\ Len(context_before) = 2

\* ---- C8
\* the text of hunk_diff after its header line
AfterHeader(hdr) == SubSeq(hunk_diff, Len(hdr) + 1, Len(hunk_diff))

\* the call on the same input with the header "@@ -a +c @@"
WithPlainHeader(a, c, hdr) ==
    HunkWithContext(MkHeader(a, NoCount, c, NoCount, <<>>) \o AfterHeader(hdr),
                    hunk_start_line, is_binary, context_lines, file_lines_before, build)

ExpectedHeaderLine ==
    <<"@", "@", " ", "-">> \o ToString(hunk.old_start) \o <<",">> \o ToString(hunk.old_lines)
        \o <<" ", "+">> \o ToString(hunk.new_start) \o <<",">> \o ToString(hunk.new_lines)
        \o <<" ", "@", "@">>

\* the shapes "@@ -a[,b] +c[,d] @@[annotation]" of the input headers
ClaimedShapes == HeaderShapes \cup {<<2, 3, Annotation>>}

\* every header "@@ -a[,b] +c[,d] @@[annotation]" with its a and c
ClaimedHeaders ==
    {<<MkHeader(a, sh[1], c, sh[2], sh[3]), a, c>> :
        a \in HeaderStarts, c \in HeaderStarts, sh \in ClaimedShapes}

\* C8: for a header "@@ -a[,b] +c[,d] @@" with any annotation, old_start is
\* max(0, a - context_before_len) and new_start is max(0, c - context_before_len),
\* b, d and the annotation do not influence the result, and the produced
\* header line is "@@ -old_start,old_lines +new_start,new_lines @@".
C8_StartsShifted ==
    (Returned /\ HeaderStartsWithAtAt) =>
        \A row \in ClaimedHeaders :
            InputHeader = row[1] =>
                /\ hunk.old_start = Max(0, row[2] - Len(context_before))
                /\ hunk.new_start = Max(0, row[3] - Len(context_before))
                /\ OutputLines[1] = ExpectedHeaderLine
                /\ WithPlainHeader(row[2], row[3], InputHeader) =
                       [outcome |-> "ok", hunk |-> hunk]

C8_Witness ==
    /\ Returned
    /\ InputHeader = MkHeader(2, 2, 1, 3, Annotation)
    /\ Len(context_before) = 2
    /\ hunk.old_start = 0 /\ hunk.new_start = 0
    /\ context_after # <<>>

\* ---- C9
\* C9: after the header, the diff of a returned Hunk holds the context-before
\* lines, then the input body lines unchanged and in order, then the
\* context-after lines; every context line is a file line with one space in
\* front; file_lines_before and the binary flag are passed through.
C9_BodyOrder ==
    Returned =>
        /\ OutputBody = context_before \o InputBody \o context_after
        /\ \A k \in 1..Len(context_before) :
               \E j \in 1..FileLen : context_before[k] = <<" ">> \o file_lines_before[j]
        /\ \A k \in 1..Len(context_after) :
               \E j \in 1..FileLen : context_after[k] = <<" ">> \o file_lines_before[j]
        /\ Len(OutputBody) = Len(context_before) + Len(InputBody) + Len(context_after)
        /\ hunk.binary = is_binary

C9_FramePreserved ==
    /\ []C9_BodyOrder
    /\ [][file_lines_before' = file_lines_before /\ is_binary' = is_binary]_vars

C9_Witness ==
    /\ Returned /\ is_binary
    /\ Len(context_before) = 1 /\ Len(context_after) = 1 /\ Len(InputBody) = 2
    /\ OutputBody[2] = InputBody[1] /\ OutputBody[3] = InputBody[2]

\* ---- C10
\* the old-start number of the input header
InputOldStart ==
    LET fields == HeaderFields(InputHeader)
    IN  IF fields = <<>> THEN NoCount
        ELSE LET p == ParseIsize(FirstCommaField(fields[1]))
             IN  IF p.ok THEN UnsignedAbs(p.val) ELSE NoCount

\* C10: when the header's old-start number equals hunk_start_line = s with
\* 1 <= s <= file length + 1 and w >= 1, the context-before lines are the
\* file lines old_start .. s - 1 in ascending order, there are min(w, s - 1)
\* of them, and the returned old_start is at least 1.
C10_BeforeImmediatelyPrecedes ==
    (Returned /\ InputOldStart = hunk_start_line /\ 1 <= hunk_start_line
        /\ hunk_start_line <= FileLen + 1 /\ context_lines >= 1) =>
        /\ Len(context_before) = Min(context_lines, hunk_start_line - 1)
        /\ hunk.old_start >= 1
        /\ hunk.old_start + Len(context_before) = hunk_start_line
        /\ \A k \in 1..Len(context_before) :
               context_before[k] = <<" ">> \o file_lines_before[hunk.old_start + k - 1]

C10_Witness ==
    /\ Returned /\ InputOldStart = 4 /\ hunk_start_line = 4 /\ FileLen = 3
    /\ context_lines = 2
    /\ hunk.old_start = 2
    /\ context_before = << <<" ">> \o file_lines_before[2], <<" ">> \o file_lines_before[3] >>

====
